---- MODULE Spec2Model ----
(***************************************************************************)
(* Model of hvtag's track filename parser (src/tagger/track_parser.rs) and *)
(* folder normalizer (src/tagger/folder_normalizer.rs).                    *)
(*                                                                         *)
(* A filename is a sequence of characters.  ASCII characters are the       *)
(* one-character strings; the non-ASCII characters the code distinguishes  *)
(* carry a label: "FW0".."FW9" are the full-width digits U+FF10..U+FF19,   *)
(* "FWSQ_L" "FWSQ_R" "FWPAR_L" "FWPAR_R" the full-width brackets U+FF3B    *)
(* U+FF3D U+FF08 U+FF09, "LENT_L" "LENT_R" the lenticular brackets U+3010  *)
(* U+3011 (likewise TORT, ANGLE, DANGLE for U+3014/15, U+3008/09,          *)
(* U+300A/0B), "DAI" the kanji U+7B2C and "WA" "SHOU" "KAI" "SHUU" the     *)
(* kanji U+8A71 U+7AE0 U+56DE U+96C6.                                      *)
(***************************************************************************)
EXTENDS Integers, Sequences, FiniteSets, TLC

\* ------------------------------------------------------------------------
\* Option<u32>: None is the empty sequence, Some(n) the one-element sequence
\* ------------------------------------------------------------------------
None == <<>>
Some(n) == <<n>>

\* ------------------------------------------------------------------------
\* Character classes of the regex crate (Unicode-aware \d and \s)
\* ------------------------------------------------------------------------
AsciiDigits == {"0", "1", "2", "3", "4", "5", "6", "7", "8", "9"}
FullwidthDigits == {"FW0", "FW1", "FW2", "FW3", "FW4", "FW5", "FW6", "FW7", "FW8", "FW9"}

\* \d of the regex crate: any Unicode decimal digit
IsDigit(c) == c \in AsciiDigits \cup FullwidthDigits

\* [\s\-._]
IsSep(c) == c \in {" ", "-", ".", "_"}

\* value of one ASCII digit
DigitVal(c) ==
    CASE c = "0" -> 0 [] c = "1" -> 1 [] c = "2" -> 2 [] c = "3" -> 3
      [] c = "4" -> 4 [] c = "5" -> 5 [] c = "6" -> 6 [] c = "7" -> 7
      [] c = "8" -> 8 [] c = "9" -> 9

\* str::parse::<u32>() succeeds on non-empty ASCII digit strings only
ParseOk(ds) == Len(ds) > 0 /\ \A j \in 1..Len(ds) : ds[j] \in AsciiDigits

RECURSIVE ParseU32(_)
ParseU32(ds) ==
    IF Len(ds) = 0 THEN 0
    ELSE 10 * ParseU32(SubSeq(ds, 1, Len(ds) - 1)) + DigitVal(ds[Len(ds)])

\* the tail every strategy shares: parse the capture, keep it if 0 < num < 1000
BoundCheck_Lax(ds) ==
    IF ds # <<>> /\ ParseOk(ds) /\ ParseU32(ds) < 1000 THEN Some(ParseU32(ds)) ELSE None

BoundCheck(ds) ==
    IF ds # <<>> /\ ParseOk(ds) /\ ParseU32(ds) > 0 /\ ParseU32(ds) < 1000
    THEN Some(ParseU32(ds)) ELSE None

\* ------------------------------------------------------------------------
\* String helpers
\* ------------------------------------------------------------------------
SetMax(S) == CHOOSE x \in S : \A y \in S : y <= x
SetMin(S) == CHOOSE x \in S : \A y \in S : x <= y

\* s[i..] starts with the literal lit
StartsWithAt(s, i, lit) ==
    /\ i >= 1
    /\ i + Len(lit) - 1 <= Len(s)
    /\ \A j \in 1..Len(lit) : s[i + j - 1] = lit[j]

\* k digits start at position i
DigitRun(s, i, k) ==
    /\ i >= 1
    /\ i + k - 1 <= Len(s)
    /\ \A j \in i..(i + k - 1) : IsDigit(s[j])

\* filename.rsplit_once('.').map(|(name, _)| name).unwrap_or(filename)
name_without_ext(filename) ==
    LET dots == {i \in 1..Len(filename) : filename[i] = "."}
    IN IF dots = {} THEN filename ELSE SubSeq(filename, 1, SetMax(dots) - 1)

LowerChar(c) ==
    CASE c = "A" -> "a" [] c = "B" -> "b" [] c = "C" -> "c" [] c = "D" -> "d"
      [] c = "E" -> "e" [] c = "G" -> "g" [] c = "H" -> "h" [] c = "I" -> "i"
      [] c = "K" -> "k" [] c = "M" -> "m" [] c = "R" -> "r" [] c = "S" -> "s"
      [] c = "T" -> "t" [] c = "X" -> "x"
      [] OTHER -> c

\* str::to_lowercase
to_lowercase(s) == [j \in 1..Len(s) |-> LowerChar(s[j])]

\* ------------------------------------------------------------------------
\* The six patterns of the standard cascade.  Each operator gives capture
\* group 1 (group 2 for the disc pattern) of the leftmost-first match, or
\* <<>> when the pattern does not match.  (\d{1,3}) is greedy: the longest
\* digit run of 1..3 characters after which the rest of the pattern matches.
\* ------------------------------------------------------------------------

\* ^(\d{1,3})[\s\-._]
beginning_pattern(s) ==
    LET ks == {k \in 1..3 : DigitRun(s, 1, k) /\ k + 1 <= Len(s) /\ IsSep(s[k + 1])}
    IN IF ks = {} THEN <<>> ELSE SubSeq(s, 1, SetMax(ks))

\* #(\d{1,3})
hash_pattern(s) ==
    LET starts == {i \in 1..Len(s) : s[i] = "#" /\ DigitRun(s, i + 1, 1)}
    IN IF starts = {} THEN <<>>
       ELSE LET i == SetMin(starts)
                k == SetMax({k \in 1..3 : DigitRun(s, i + 1, k)})
            IN SubSeq(s, i + 1, i + k)

\* ^(?:tr|tk|track|ch|se|bgm)(\d{1,3})[\s\-._]
ShortPrefixes == << <<"t","r">>, <<"t","k">>, <<"t","r","a","c","k">>,
                    <<"c","h">>, <<"s","e">>, <<"b","g","m">> >>

prefix_pattern(s) ==
    LET Ks(a) == {k \in 1..3 :
                    /\ StartsWithAt(s, 1, ShortPrefixes[a])
                    /\ DigitRun(s, Len(ShortPrefixes[a]) + 1, k)
                    /\ Len(ShortPrefixes[a]) + k + 1 <= Len(s)
                    /\ IsSep(s[Len(ShortPrefixes[a]) + k + 1])}
        alts == {a \in 1..Len(ShortPrefixes) : Ks(a) # {}}
    IN IF alts = {} THEN <<>>
       ELSE LET a == SetMin(alts)
                p == Len(ShortPrefixes[a])
            IN SubSeq(s, p + 1, p + SetMax(Ks(a)))

\* (?:disc|cd|track)[\s\-._]?(\d{1,3})[\s\-._](\d{1,3}), capture group 2
DiscPrefixes == << <<"d","i","s","c">>, <<"c","d">>, <<"t","r","a","c","k">> >>

\* the match that starts at i: <<position of group 2, its length>> or <<>>
DiscMatchAt(s, i) ==
    LET \* group 1 starts at q: the greedy k1 with a separator and a digit after it
        K1s(q) == {k \in 1..3 : /\ DigitRun(s, q, k)
                                /\ q + k <= Len(s)
                                /\ IsSep(s[q + k])
                                /\ DigitRun(s, q + k + 1, 1)}
        \* [\s\-._]? is greedy: with the separator first, then without it
        Qs(a) == LET p == i + Len(DiscPrefixes[a])
                 IN IF ~StartsWithAt(s, i, DiscPrefixes[a]) THEN <<>>
                    ELSE IF p <= Len(s) /\ IsSep(s[p]) /\ K1s(p + 1) # {} THEN <<p + 1>>
                    ELSE IF K1s(p) # {} THEN <<p>>
                    ELSE <<>>
        alts == {a \in 1..Len(DiscPrefixes) : Qs(a) # <<>>}
    IN IF alts = {} THEN <<>>
       ELSE LET q == Qs(SetMin(alts))[1]
                r == q + SetMax(K1s(q)) + 1
            IN <<r, SetMax({k \in 1..3 : DigitRun(s, r, k)})>>

\* mutant: capture group 1 (the disc index) instead of group 2
disc_pattern_Group1(s) ==
    LET starts == {i \in 1..Len(s) : DiscMatchAt(s, i) # <<>>}
    IN IF starts = {} THEN <<>>
       ELSE LET i == SetMin(starts)
                m == DiscMatchAt(s, i)
                q == SetMin({j \in i..m[1] : IsDigit(s[j])})
            IN SubSeq(s, q, m[1] - 2)

disc_pattern(s) ==
    LET starts == {i \in 1..Len(s) : DiscMatchAt(s, i) # <<>>}
    IN IF starts = {} THEN <<>>
       ELSE LET m == DiscMatchAt(s, SetMin(starts))
            IN SubSeq(s, m[1], m[1] + m[2] - 1)

\* [\s\-._](\d{1,3})[\s\-._]
separator_pattern(s) ==
    LET Ks(i) == {k \in 1..3 : /\ IsSep(s[i])
                               /\ DigitRun(s, i + 1, k)
                               /\ i + k + 1 <= Len(s)
                               /\ IsSep(s[i + k + 1])}
        starts == {i \in 1..Len(s) : Ks(i) # {}}
    IN IF starts = {} THEN <<>>
       ELSE LET i == SetMin(starts)
            IN SubSeq(s, i + 1, i + SetMax(Ks(i)))

\* [\s\-._](\d{1,3})$
end_pattern(s) ==
    LET Ks(i) == {k \in 1..3 : /\ IsSep(s[i])
                               /\ DigitRun(s, i + 1, k)
                               /\ i + k = Len(s)}
        starts == {i \in 1..Len(s) : Ks(i) # {}}
    IN IF starts = {} THEN <<>>
       ELSE LET i == SetMin(starts)
            IN SubSeq(s, i + 1, i + SetMax(Ks(i)))

\* ------------------------------------------------------------------------
\* parse_track_number: the standard cascade
\* ------------------------------------------------------------------------

\* the captures of the six strategies, in the order the code tries them
CascadeCaptures(filename) ==
    LET name == name_without_ext(filename)
    IN << beginning_pattern(name),
          hash_pattern(name),
          prefix_pattern(to_lowercase(name)),
          disc_pattern(to_lowercase(name)),
          separator_pattern(name),
          end_pattern(name) >>

\* Each strategy returns only when its capture passes the bound check;
\* otherwise control falls through to the next strategy (lines 173-245).
parse_track_number_StopAtFirstMatch(filename) ==
    LET caps == CascadeCaptures(filename)
        first == {j \in 1..6 : caps[j] # <<>> /\ \A h \in 1..(j - 1) : caps[h] = <<>>}
    IN IF first = {} THEN None ELSE BoundCheck(caps[SetMin(first)])

parse_track_number(filename) ==
    LET name == name_without_ext(filename)
        lower == to_lowercase(name)
    IN IF BoundCheck(beginning_pattern(name)) # None THEN BoundCheck(beginning_pattern(name))
       ELSE IF BoundCheck(hash_pattern(name)) # None THEN BoundCheck(hash_pattern(name))
       ELSE IF BoundCheck(prefix_pattern(lower)) # None THEN BoundCheck(prefix_pattern(lower))
       ELSE IF BoundCheck(disc_pattern(lower)) # None THEN BoundCheck(disc_pattern(lower))
       ELSE IF BoundCheck(separator_pattern(name)) # None THEN BoundCheck(separator_pattern(name))
       ELSE IF BoundCheck(end_pattern(name)) # None THEN BoundCheck(end_pattern(name))
       ELSE None

\* ------------------------------------------------------------------------
\* Asian-text normalizer and the preference strategies
\* ------------------------------------------------------------------------

\* NFKC on the characters of the model: the full-width forms have a
\* compatibility mapping to ASCII, the CJK brackets and the kanji have none
NfkcChar(c) ==
    CASE c = "FW0" -> "0" [] c = "FW1" -> "1" [] c = "FW2" -> "2" [] c = "FW3" -> "3"
      [] c = "FW4" -> "4" [] c = "FW5" -> "5" [] c = "FW6" -> "6" [] c = "FW7" -> "7"
      [] c = "FW8" -> "8" [] c = "FW9" -> "9"
      [] c = "FWSQ_L" -> "[" [] c = "FWSQ_R" -> "]"
      [] c = "FWPAR_L" -> "(" [] c = "FWPAR_R" -> ")"
      [] OTHER -> c

\* the map over chars of lines 19-26: U+FF10..U+FF19 to '0'..'9'
FullwidthDigitToAscii(c) == IF c \in FullwidthDigits THEN NfkcChar(c) ELSE c

normalize_asian_text(text) ==
    [j \in 1..Len(text) |-> FullwidthDigitToAscii(NfkcChar(text[j]))]

\* open(\d{1,3})close, for one bracket pair
BracketCaptures(s, open, close) ==
    LET Ks(i) == {k \in 1..3 : /\ s[i] = open
                               /\ DigitRun(s, i + 1, k)
                               /\ i + k + 1 <= Len(s)
                               /\ s[i + k + 1] = close}
        starts == {i \in 1..Len(s) : Ks(i) # {}}
    IN IF starts = {} THEN <<>>
       ELSE LET i == SetMin(starts)
            IN SubSeq(s, i + 1, i + SetMax(Ks(i)))

\* the six bracket pairs of lines 36-43, as written in the source:
\* U+3010/3011, U+FF3B/FF3D, U+3014/3015, U+3008/3009, U+300A/300B, U+FF08/FF09
BracketPairs == << <<"LENT_L", "LENT_R">>, <<"FWSQ_L", "FWSQ_R">>,
                   <<"TORT_L", "TORT_R">>, <<"ANGLE_L", "ANGLE_R">>,
                   <<"DANGLE_L", "DANGLE_R">>, <<"FWPAR_L", "FWPAR_R">> >>

parse_asian_brackets(filename) ==
    LET normalized == normalize_asian_text(filename)
        Try(j) == BoundCheck(BracketCaptures(normalized, BracketPairs[j][1], BracketPairs[j][2]))
        hits == {j \in 1..Len(BracketPairs) : Try(j) # None}
    IN IF hits = {} THEN None ELSE Try(SetMin(hits))

\* DAI(\d{1,3})[WA SHOU KAI SHUU]: U+7B2C, then U+8A71 U+7AE0 U+56DE U+96C6
KanjiSuffixes == {"WA", "SHOU", "KAI", "SHUU"}

kanji_pattern(s) ==
    LET Ks(i) == {k \in 1..3 : /\ s[i] = "DAI"
                               /\ DigitRun(s, i + 1, k)
                               /\ i + k + 1 <= Len(s)
                               /\ s[i + k + 1] \in KanjiSuffixes}
        starts == {i \in 1..Len(s) : Ks(i) # {}}
    IN IF starts = {} THEN <<>>
       ELSE LET i == SetMin(starts)
            IN SubSeq(s, i + 1, i + SetMax(Ks(i)))

parse_kanji_episode(filename) ==
    BoundCheck(kanji_pattern(normalize_asian_text(filename)))

\* (\d{1,3}) followed by the escaped literal delimiter; first_number is the
\* same pattern with nothing after the digits
digits_then_literal(s, lit) ==
    LET Ks(i) == {k \in 1..3 : DigitRun(s, i, k) /\ StartsWithAt(s, i + k, lit)}
        starts == {i \in 1..Len(s) : Ks(i) # {}}
    IN IF starts = {} THEN <<>>
       ELSE LET i == SetMin(starts)
            IN SubSeq(s, i, i + SetMax(Ks(i)) - 1)

\* try_strategy with an unknown strategy name read as first_number
try_strategy_UnknownAsFirstNumber(filename, pref) ==
    LET name == name_without_ext(filename)
    IN CASE pref.strategy_name = "asian_brackets" -> parse_asian_brackets(filename)
         [] pref.strategy_name = "asian_kanji_episode" -> parse_kanji_episode(filename)
         [] pref.strategy_name = "asian_fullwidth" ->
                parse_track_number(normalize_asian_text(filename))
         [] pref.strategy_name = "custom_delimiter" ->
                IF pref.custom_delimiter # <<>>
                THEN BoundCheck(digits_then_literal(name, pref.custom_delimiter[1]))
                ELSE None
         [] OTHER -> BoundCheck(digits_then_literal(name, <<>>))

\* Option<String>: no delimiter is <<>>, Some(d) is <<d>>
try_strategy(filename, pref) ==
    LET name == name_without_ext(filename)
    IN CASE pref.strategy_name = "asian_brackets" -> parse_asian_brackets(filename)
         [] pref.strategy_name = "asian_kanji_episode" -> parse_kanji_episode(filename)
         [] pref.strategy_name = "asian_fullwidth" ->
                parse_track_number(normalize_asian_text(filename))
         [] pref.strategy_name = "first_number" ->
                BoundCheck(digits_then_literal(name, <<>>))
         [] pref.strategy_name = "custom_delimiter" ->
                IF pref.custom_delimiter # <<>>
                THEN BoundCheck(digits_then_literal(name, pref.custom_delimiter[1]))
                ELSE None
         [] OTHER -> parse_track_number(filename)

\* Option<&TrackParsingPreference>: no preference is <<>>, Some(p) is <<p>>
parse_track_number_with_preference_NoFallback(filename, preference) ==
    IF preference # <<>> THEN try_strategy(filename, preference[1])
    ELSE parse_track_number(filename)

parse_track_number_with_preference(filename, preference) ==
    IF preference # <<>> /\ try_strategy(filename, preference[1]) # None
    THEN try_strategy(filename, preference[1])
    ELSE parse_track_number(filename)

\* ------------------------------------------------------------------------
\* Folder normalizer: paths and names
\*
\* A directory is the sequence of its components below the work root (the
\* root is <<>>); a component and a file name are character sequences.  A
\* file is [dir, name, id]: id is the <<dir, name>> it had in the initial
\* state, which identifies the file however often it is renamed.
\* ------------------------------------------------------------------------

\* Path::extension: what follows the last '.', a leading '.' not counted
extension(name) ==
    LET dots == {i \in 2..Len(name) : name[i] = "."}
    IN IF dots = {} THEN <<>> ELSE SubSeq(name, SetMax(dots) + 1, Len(name))

\* Path::file_stem: the name without its extension
file_stem(name) ==
    LET dots == {i \in 2..Len(name) : name[i] = "."}
    IN IF dots = {} THEN name ELSE SubSeq(name, 1, SetMax(dots) - 1)

\* matches!(ext, "mp3" | "flac" | "wav" | "ogg")
AudioExtensions == { <<"m","p","3">>, <<"f","l","a","c">>, <<"w","a","v">>, <<"o","g","g">> }

is_audio(name) == extension(name) \in AudioExtensions

\* the relative directory as a string, components joined by sep
RECURSIVE JoinPath(_, _)
JoinPath(dir, sep) ==
    IF Len(dir) = 0 THEN <<>>
    ELSE IF Len(dir) = 1 THEN dir[1]
    ELSE dir[1] \o <<sep>> \o JoinPath(Tail(dir), sep)

\* str::replace("/", "_")
ReplaceSlash(str) == [j \in 1..Len(str) |-> IF str[j] = "/" THEN "_" ELSE str[j]]

\* what exists at the work root under this name: a file or a directory
ExistsAtRoot(fs, ds, name) ==
    \/ \E f \in fs : f.dir = <<>> /\ f.name = name
    \/ <<name>> \in ds

\* ------------------------------------------------------------------------
\* detect_folder_pattern
\* ------------------------------------------------------------------------

has_audio_files_in_dir_AnyFile(fs, dir) ==
    \E f \in fs : f.dir = dir

has_audio_files_in_dir(fs, dir) ==
    \E f \in fs : f.dir = dir /\ is_audio(f.name)

LanguageCodes == { <<"j","p">>, <<"e","n">>, <<"c","n">>, <<"k","r">> }
FormatNames == { <<"w","a","v">>, <<"f","l","a","c">>, <<"o","g","g">> }

\* the category the if/else-if chain of lines 116-126 gives a directory name
DirCategory(dir_name) ==
    LET lower == to_lowercase(dir_name)
    IN IF lower = <<"m","p","3">> THEN "mp3"
       ELSE IF lower = <<"a","u","d","i","o">> THEN "audio"
       ELSE IF lower \in FormatNames THEN "format"
       ELSE IF StartsWithAt(lower, 1, <<"d","i","s","c">>)
               \/ StartsWithAt(lower, 1, <<"c","d">>) THEN "disc"
       ELSE IF lower \in LanguageCodes THEN "lang"
       ELSE "other"

NoFlags == [mp3 |-> FALSE, audio |-> FALSE, format |-> FALSE, disc |-> FALSE, lang |-> FALSE]

\* the loop of lines 102-129 over the subdirectories in the order read_dir
\* lists them: each flag is assigned, so the directory listed last decides.
\* read_dir lists an unchanged directory in the same order on every call, and
\* keeps the relative order of the entries that remain when others go.
RECURSIVE DetectFlags(_, _, _)
DetectFlags(fs, listing, flags) ==
    IF listing = <<>> THEN flags
    ELSE LET c == DirCategory(Head(listing)[1])
             h == has_audio_files_in_dir(fs, Head(listing))
         IN DetectFlags(fs, Tail(listing),
                        IF c = "other" THEN flags ELSE [flags EXCEPT ![c] = h])

\* lines 131-156
PatternOf(has_audio_in_root, flags) ==
    LET pattern_count == Cardinality({c \in DOMAIN flags : flags[c]})
    IN IF pattern_count > 1 THEN "Mixed"
       ELSE IF has_audio_in_root /\ pattern_count = 0 THEN "Flat"
       ELSE IF flags.mp3 THEN "Mp3Subfolder"
       ELSE IF flags.audio THEN "AudioSubfolder"
       ELSE IF flags.format THEN "FormatSubfolder"
       ELSE IF flags.disc THEN "DiscSubfolders"
       ELSE IF flags.lang THEN "LanguageSubfolders"
       ELSE "Flat"

\* listing: the immediate subdirectories in read_dir order
detect_folder_pattern(fs, listing) ==
    PatternOf(\E f \in fs : f.dir = <<>> /\ is_audio(f.name),
              DetectFlags(fs, listing, NoFlags))

\* ------------------------------------------------------------------------
\* normalize_folder_structure
\* ------------------------------------------------------------------------

should_preserve_subdir_prefix_Never(pattern, subdir) == FALSE

should_preserve_subdir_prefix(pattern, subdir) ==
    CASE pattern = "DiscSubfolders" -> TRUE
      [] pattern = "LanguageSubfolders" -> TRUE
      [] pattern = "Mixed" ->
            LET subdir_lower == to_lowercase(subdir)
            IN \/ StartsWithAt(subdir_lower, 1, <<"d","i","s","c">>)
               \/ StartsWithAt(subdir_lower, 1, <<"c","d">>)
               \/ subdir_lower \in LanguageCodes
      [] OTHER -> FALSE

\* lines 205-211
new_filename(pattern, dir, original_name) ==
    IF should_preserve_subdir_prefix(pattern, JoinPath(dir, "/"))
    THEN ReplaceSlash(JoinPath(dir, "/")) \o <<"_">> \o original_name
    ELSE original_name

\* decimal numeral of i, 1 <= i <= 999 (format!("{}", i))
DigitChar(d) ==
    CASE d = 0 -> "0" [] d = 1 -> "1" [] d = 2 -> "2" [] d = 3 -> "3" [] d = 4 -> "4"
      [] d = 5 -> "5" [] d = 6 -> "6" [] d = 7 -> "7" [] d = 8 -> "8" [] d = 9 -> "9"

Numeral(i) ==
    IF i < 10 THEN <<DigitChar(i)>>
    ELSE IF i < 100 THEN <<DigitChar(i \div 10), DigitChar(i % 10)>>
    ELSE <<DigitChar(i \div 100), DigitChar((i \div 10) % 10), DigitChar(i % 10)>>

\* for i in 1..1000
ConflictLimit == 1000

Suffixed(name, i) ==
    IF extension(name) = <<>>
    THEN file_stem(name) \o <<"_">> \o Numeral(i)
    ELSE file_stem(name) \o <<"_">> \o Numeral(i) \o <<".">> \o extension(name)

\* the loop of lines 306-317 over i in lo..hi, in ascending order: the first
\* free candidate, <<>> if none.  The range is searched lower half first, so
\* that the evaluation does not nest a thousand deep.
RECURSIVE FirstFree(_, _, _, _, _)
FirstFree(fs, ds, name, lo, hi) ==
    IF lo > hi THEN <<>>
    ELSE IF lo = hi
    THEN IF ~ExistsAtRoot(fs, ds, Suffixed(name, lo)) THEN <<Suffixed(name, lo)>> ELSE <<>>
    ELSE LET mid == (lo + hi) \div 2
             lower == FirstFree(fs, ds, name, lo, mid)
         IN IF lower # <<>> THEN lower ELSE FirstFree(fs, ds, name, mid + 1, hi)

\* the destination taken as it is, whether or not it exists
resolve_filename_conflict_Unchecked(fs, ds, name) == <<name>>

\* the loop starting at 2
resolve_filename_conflict_FromTwo(fs, ds, name) ==
    IF ~ExistsAtRoot(fs, ds, name) THEN <<name>>
    ELSE FirstFree(fs, ds, name, 2, ConflictLimit - 1)

\* Ok(name) is <<name>>, Err(PathCreationFailed) is <<>>
resolve_filename_conflict(fs, ds, name) ==
    IF ~ExistsAtRoot(fs, ds, name) THEN <<name>>
    ELSE FirstFree(fs, ds, name, 1, ConflictLimit - 1)

\* the subdirectories directly inside dir
Subdirs(ds, dir) == {e \in ds : Len(e) = Len(dir) + 1 /\ SubSeq(e, 1, Len(dir)) = dir}

\* every order in which a finite set can be listed
RECURSIVE Listings(_)
Listings(S) ==
    IF S = {} THEN {<<>>}
    ELSE UNION {{<<x>> \o l : l \in Listings(S \ {x})} : x \in S}

\* collect_audio_files_recursive_impl: the audio files below dir in the
\* order of a depth-first walk, read_dir listing each directory in some
\* order.  A directory entry is [file |-> f] or [subdir |-> d].  The audio
\* files of the root itself are pushed with an empty relative_subdir and
\* the loop of normalize_folder_structure passes over them wherever they
\* stand in the list (lines 196-198): the walk lists the others only.
DirEntries(fs, ds, dir) ==
    {[file |-> f] : f \in {g \in fs : g.dir = dir /\ dir # <<>> /\ is_audio(g.name)}}
      \cup {[subdir |-> d] : d \in Subdirs(ds, dir)}

RECURSIVE Walks(_, _, _), WalkEntries(_, _, _)
WalkEntries(fs, ds, entries) ==
    IF entries = <<>> THEN {<<>>}
    ELSE LET first == IF "subdir" \in DOMAIN Head(entries)
                      THEN Walks(fs, ds, Head(entries).subdir)
                      ELSE {<<Head(entries).file>>}
         IN {a \o b : a \in first, b \in WalkEntries(fs, ds, Tail(entries))}

Walks(fs, ds, dir) ==
    UNION {WalkEntries(fs, ds, l) : l \in Listings(DirEntries(fs, ds, dir))}

\* the walk that does not descend below the immediate subdirectories
collect_audio_files_recursive_OneLevel(fs, ds) ==
    Walks(fs, {d \in ds : Len(d) = 1}, <<>>)

collect_audio_files_recursive(fs, ds) == Walks(fs, ds, <<>>)

\* fs::rename(&source_path, &final_dest) at line 222: the file takes the
\* destination path at the root, replacing a file that is already there
rename(fs, f, dest) ==
    (fs \ ({f} \cup {g \in fs : g.dir = <<>> /\ g.name = dest}))
      \cup {[f EXCEPT !.dir = <<>>, !.name = dest]}

\* the loop of lines 194-224 over the collected files; failAt is the number
\* of the rename (counted among the files to move) at which fs::rename
\* fails, 0 when none does.  Gives the files afterwards, the count moved
\* and the error that ended the loop.
RECURSIVE Relocate(_, _, _, _, _, _)
Relocate(fs, ds, pattern, todo, failAt, moved) ==
    IF todo = <<>> THEN [files |-> fs, moved |-> moved, err |-> "none"]
    ELSE LET f == Head(todo)
             final == resolve_filename_conflict(fs, ds, new_filename(pattern, f.dir, f.name))
         IN IF f.dir = <<>> THEN Relocate(fs, ds, pattern, Tail(todo), failAt, moved)
            ELSE IF final = <<>>
                 THEN [files |-> fs, moved |-> moved, err |-> "PathCreationFailed"]
            ELSE IF failAt = moved + 1
                 THEN [files |-> fs, moved |-> moved, err |-> "Io"]
            ELSE Relocate(rename(fs, f, final[1]), ds, pattern, Tail(todo), failAt, moved + 1)

\* cleanup_empty_subdirs: remove_dir succeeds on the immediate
\* subdirectories that hold no file and no directory
cleanup_empty_subdirs(fs, ds) ==
    ds \ {d \in ds : /\ Len(d) = 1
                     /\ ~\E f \in fs : f.dir = d
                     /\ Subdirs(ds, d) = {}}

\* ------------------------------------------------------------------------
\* State
\* ------------------------------------------------------------------------
VARIABLES
    filename,         \* the filename handed to the parser (extension included)
    preference,       \* Option<&TrackParsingPreference> of the last call
    called,           \* which entry point has run: "none" before the call
    track,            \* Option<u32> the call returned
    files,            \* the files below the work directory
    dirs,             \* the directories below the work directory
    listing,          \* the subdirectories of the work directory, in read_dir order
    calls,             \* the normalize_folder_structure calls made, with results
    run,              \* the number of the current run of step3_tag_files, 0 when none
    idx,              \* position of the batch loop in works_with_paths
    pc,               \* where the work being processed stands
    folders,          \* per work: the files and directories of its folder, the .tagged marker
    store,            \* per work: Option<TrackParsingPreference> in the preference table
    recorded,         \* per work: whether file_processing holds a row for it
    local,            \* the locals of the tag_all_files call in progress
    trace             \* per work: what the current run has done to it

parserVars == <<filename, preference, called, track>>
normalizerVars == <<files, dirs, listing, calls>>
batchVars == <<run, idx, pc, folders, store, recorded, local, trace>>
vars == <<filename, preference, called, track, files, dirs, listing, calls,
          run, idx, pc, folders, store, recorded, local, trace>>

\* ------------------------------------------------------------------------
\* Inputs: filenames are concatenations of a few tokens plus an extension
\* ------------------------------------------------------------------------
MaxTokens == 4
MaxPrefTokens == 3

RECURSIVE Concats(_, _)
Concats(T, n) ==
    IF n = 0 THEN {<<>>}
    ELSE LET prev == Concats(T, n - 1)
         IN prev \cup {p \o t : p \in prev, t \in T}

ParseTokens == { <<"0">>, <<"1">>, <<"1","2">>, <<"1","0","0","0">>,
                 <<"-">>, <<".">>, <<"#">>,
                 <<"d","i","s","c">>, <<"C","D">>, <<"T","r","a","c","k">> }

Exts == { <<>>, <<".","m","p","3">> }

Filenames == {s \o e : s \in Concats(ParseTokens, MaxTokens) \ {<<>>}, e \in Exts}

PrefTokens == { <<"0">>, <<"1">>, <<"1","0","0","0">>, <<"-">>, <<"x">>,
                <<"FW1">>, <<"LENT_L">>, <<"LENT_R">>, <<"FWSQ_L">>, <<"FWSQ_R">>,
                <<"DAI">>, <<"WA">> }

PrefFilenames == {s \o <<".","m","p","3">> : s \in Concats(PrefTokens, MaxPrefTokens) \ {<<>>}}

\* TrackParsingPreference (lines 6-11); Option<String> as for Option<u32>
Pref(name, delim, conv, fmt) ==
    [strategy_name |-> name, custom_delimiter |-> delim,
     use_asian_conversion |-> conv, asian_format_type |-> fmt]

\* the preferences prompt_for_parsing_strategy builds, and stored records
\* with no delimiter or with a strategy name the parser does not know
Preferences ==
    { Pref("asian_fullwidth", <<>>, TRUE, <<"fullwidth">>),
      Pref("asian_brackets", <<>>, TRUE, <<"asian_brackets">>),
      Pref("asian_kanji_episode", <<>>, TRUE, <<"kanji_episode">>),
      Pref("custom_delimiter", << <<"-">> >>, FALSE, <<>>),
      Pref("custom_delimiter", << <<>> >>, FALSE, <<>>),
      Pref("custom_delimiter", <<>>, FALSE, <<>>),
      Pref("first_number", <<>>, FALSE, <<>>),
      Pref("legacy", <<>>, FALSE, <<>>),
      Pref("legacy", << <<"-">> >>, TRUE, <<"fullwidth">>) }

\* ------------------------------------------------------------------------
\* Actions of the parser
\* ------------------------------------------------------------------------
ParseTrackNumber ==
    /\ called = "none"
    /\ called' = "parse_track_number"
    /\ track' = parse_track_number(filename)
    /\ UNCHANGED <<filename, preference>>
    /\ UNCHANGED normalizerVars
    /\ UNCHANGED batchVars

ParseTrackNumberWithPreference(p) ==
    /\ called = "none"
    /\ called' = "parse_track_number_with_preference"
    /\ preference' = p
    /\ track' = parse_track_number_with_preference(filename, p)
    /\ UNCHANGED filename
    /\ UNCHANGED normalizerVars
    /\ UNCHANGED batchVars

\* no batch runs in the specifications of the parser and of the normalizer
BatchIdle ==
    /\ run = 0
    /\ idx = 0
    /\ pc = "idle"
    /\ folders = <<>>
    /\ store = <<>>
    /\ recorded = <<>>
    /\ local = <<>>
    /\ trace = <<>>

\* no work directory is involved in the parser's specifications
NormalizerIdle ==
    /\ files = {}
    /\ dirs = {}
    /\ listing = <<>>
    /\ calls = <<>>

InitParse ==
    /\ filename \in Filenames
    /\ preference = <<>>
    /\ called = "none"
    /\ track = None
    /\ NormalizerIdle
    /\ BatchIdle

NextParse == ParseTrackNumber

SpecParse == InitParse /\ [][NextParse]_vars

InitPref ==
    /\ filename \in PrefFilenames
    /\ preference = <<>>
    /\ called = "none"
    /\ track = None
    /\ NormalizerIdle
    /\ BatchIdle

NextPref ==
    \/ ParseTrackNumber
    \/ \E p \in {<<>>} \cup {<<q>> : q \in Preferences} : ParseTrackNumberWithPreference(p)

SpecPref == InitPref /\ [][NextPref]_vars

\* ------------------------------------------------------------------------
\* Work directories: a few entries placed in the root, in subdirectories of
\* every category and in nested subdirectories
\* ------------------------------------------------------------------------
MaxFiles == 2
MaxCalls == 2

D_mp3 == <<"m","p","3">>
D_audio == <<"a","u","d","i","o">>
D_wav == <<"w","a","v">>
D_flac == <<"f","l","a","c">>
D_disc1 == <<"d","i","s","c","1">>
D_cd2 == <<"C","D","2">>
D_jp == <<"j","p">>
D_bonus == <<"b","o","n","u","s">>
D_sub == <<"s","u","b">>

TopDirs == {D_mp3, D_audio, D_wav, D_flac, D_disc1, D_cd2, D_jp, D_bonus}

F_01_mp3 == <<"0","1",".","m","p","3">>
F_02_wav == <<"0","2",".","w","a","v">>
F_cover_jpg == <<"c","o","v","e","r",".","j","p","g">>
F_01_1_mp3 == <<"0","1","_","1",".","m","p","3">>
F_disc1_01_mp3 == <<"d","i","s","c","1","_","0","1",".","m","p","3">>

\* <<dir, name>>; the name <<>> stands for the directory itself, left empty
Placements ==
    ({<<>>} \X {F_01_mp3, F_01_1_mp3, F_disc1_01_mp3})
    \cup (({<<d>> : d \in TopDirs \ {D_flac}}
             \cup {<<D_disc1, D_sub>>, <<D_bonus, D_sub>>}) \X {F_01_mp3})
    \cup ({<<D_mp3>>, <<D_wav>>} \X {F_02_wav})
    \cup ({<<D_mp3>>, <<D_flac>>} \X {F_cover_jpg})
    \cup ({<<D_cd2>>} \X {<<>>})

RECURSIVE SetsUpTo(_, _)
SetsUpTo(S, n) ==
    IF n = 0 THEN {{}}
    ELSE LET prev == SetsUpTo(S, n - 1)
         IN prev \cup {q \cup {x} : q \in prev, x \in S}

\* ------------------------------------------------------------------------
\* Actions of the normalizer
\* ------------------------------------------------------------------------

\* normalize_folder_structure, lines 179-231
NormalizeFolderStructure ==
    /\ Len(calls) < MaxCalls
    /\ LET pattern == detect_folder_pattern(files, listing)
       IN IF pattern = "Flat"
          THEN /\ calls' = Append(calls, [pattern |-> pattern, ok |-> TRUE,
                                          moved |-> 0, err |-> "none"])
               /\ UNCHANGED <<files, dirs, listing>>
          ELSE \E audio_files \in collect_audio_files_recursive(files, dirs),
                  failAt \in 0..Cardinality({f \in files : f.dir # <<>> /\ is_audio(f.name)}) :
                  LET r == Relocate(files, dirs, pattern, audio_files, failAt, 0)
                      ds == IF r.err = "none"
                            THEN cleanup_empty_subdirs(r.files, dirs) ELSE dirs
                  IN /\ files' = r.files
                     /\ dirs' = ds
                     /\ listing' = SelectSeq(listing, LAMBDA d : d \in ds)
                     /\ calls' = Append(calls, [pattern |-> pattern, ok |-> r.err = "none",
                                                moved |-> r.moved, err |-> r.err])
    /\ UNCHANGED parserVars
    /\ UNCHANGED batchVars

InitNorm ==
    /\ \E P \in SetsUpTo(Placements, MaxFiles) :
          /\ files = {[dir |-> q[1], name |-> q[2], id |-> q] : q \in {x \in P : x[2] # <<>>}}
          /\ dirs = UNION {{SubSeq(q[1], 1, k) : k \in 1..Len(q[1])} : q \in P}
          /\ listing \in Listings({<<q[1][1]>> : q \in {x \in P : x[1] # <<>>}})
    /\ calls = <<>>
    /\ filename = <<>>
    /\ preference = <<>>
    /\ called = "none"
    /\ track = None
    /\ BatchIdle

NextNorm == NormalizeFolderStructure

SpecNorm == InitNorm /\ [][NextNorm]_vars

\* ------------------------------------------------------------------------
\* Work directories whose root already holds the collision candidates
\* 01_1.mp3 .. 01_999.mp3, all of them or all but a few
\* ------------------------------------------------------------------------

\* the candidate numbers that are free at the start: none, the last one,
\* the second, or the first two
ConflictGaps == { {}, {ConflictLimit - 1}, {2}, {1, 2} }

\* the files below mp3/: mp3/01.mp3 alone, with mp3/02.wav, or with a
\* second 01.mp3 one level down
ConflictSources ==
    { { << <<D_mp3>>, F_01_mp3 >> },
      { << <<D_mp3>>, F_01_mp3 >>, << <<D_mp3>>, F_02_wav >> },
      { << <<D_mp3>>, F_01_mp3 >>, << <<D_mp3, D_sub>>, F_01_mp3 >> } }

InitConflict ==
    /\ \E G \in ConflictGaps, S \in ConflictSources, atRoot \in BOOLEAN :
          LET P == S \cup (IF atRoot THEN {<< <<>>, F_01_mp3 >>} ELSE {})
                     \cup {<< <<>>, Suffixed(F_01_mp3, i) >> : i \in (1..(ConflictLimit - 1)) \ G}
          IN /\ files = {[dir |-> q[1], name |-> q[2], id |-> q] : q \in P}
             /\ dirs = UNION {{SubSeq(q[1], 1, k) : k \in 1..Len(q[1])} : q \in P}
    /\ listing = << <<D_mp3>> >>
    /\ calls = <<>>
    /\ filename = <<>>
    /\ preference = <<>>
    /\ called = "none"
    /\ track = None
    /\ BatchIdle

NextConflict == NormalizeFolderStructure

SpecConflict == InitConflict /\ [][NextConflict]_vars

\* ------------------------------------------------------------------------
\* The batch: step3_tag_files runs process_work_folder on every work of
\* works_with_paths, and can be run again later on the same folders
\* ------------------------------------------------------------------------
MaxRuns == 2

\* main.rs 483-490: the works of the database with their folders
works_with_paths == <<"RJ01", "RJ02">>
Works == {works_with_paths[j] : j \in 1..Len(works_with_paths)}

N_1a == <<"1","-","a",".","m","p","3">>
N_x1 == <<"x","1",".","m","p","3">>

\* a work folder holding the placements P (<<dir, name>>), not yet tagged;
\* its only subdirectory, if any, is mp3
Folder(P) ==
    [files |-> {[dir |-> q[1], name |-> q[2], id |-> q] : q \in P},
     dirs |-> {q[1] : q \in {x \in P : x[1] # <<>>}},
     listing |-> IF \E q \in P : q[1] # <<>> THEN << <<D_mp3>> >> ELSE <<>>,
     marker |-> FALSE]

\* the first work comes in every layout, the second is flat with one file
\* the cascade parses
WorkFolders ==
    { fo \in [Works -> { Folder({<< <<>>, N_1a >>}),
                         Folder({<< <<>>, N_1a >>, << <<>>, N_x1 >>}),
                         Folder({<< <<>>, N_1a >>, << <<D_mp3>>, N_x1 >>}),
                         Folder({<< <<D_mp3>>, N_x1 >>}) }] :
        fo[works_with_paths[2]] = Folder({<< <<>>, N_1a >>}) }

\* the row of a work in the preference table before the first run: none, or
\* the one save_track_parsing_preference wrote in an earlier session (the
\* only writer of the table)
StoredPreferences == {<<>>, << Pref("custom_delimiter", << <<"-">> >>, FALSE, <<>>) >>}

\* AudioFormat::from_extension(extension) == Mp3 (tagger/types.rs 120-128)
is_mp3(name) == to_lowercase(extension(name)) = <<"m","p","3">>

\* --- f32 arithmetic of lines 241-245 -------------------------------------
\* a positive f32 is m * 2^(-e) with 2^23 <= m < 2^24
RECURSIVE Pow2(_)
Pow2(n) == IF n = 0 THEN 1 ELSE 2 * Pow2(n - 1)

\* the binary exponent e with 2^23 <= a * 2^e / b < 2^24, for 0 < a <= b * 2^23
RECURSIVE F32Exponent(_, _, _)
F32Exponent(a, b, e) ==
    IF a * Pow2(e) >= b * Pow2(23) THEN e ELSE F32Exponent(a, b, e + 1)

\* a as f32 / b as f32 for small counts (exactly representable), rounded to
\* nearest, ties to even; zero is [m |-> 0, e |-> 0]
F32Div(a, b) ==
    IF a = 0 THEN [m |-> 0, e |-> 0]
    ELSE LET e == F32Exponent(a, b, 0)
             q == (a * Pow2(e)) \div b
             r == (a * Pow2(e)) % b
             up == 2 * r > b \/ (2 * r = b /\ q % 2 = 1)
             m == IF up THEN q + 1 ELSE q
         IN IF m = Pow2(24) THEN [m |-> Pow2(23), e |-> e - 1] ELSE [m |-> m, e |-> e]

\* x > y on such values
F32Greater(x, y) ==
    IF x.m = 0 THEN FALSE
    ELSE IF y.m = 0 THEN TRUE
    ELSE x.e < y.e \/ (x.e = y.e /\ x.m > y.m)

\* the literal 0.3 as f32: the f32 nearest to 3/10
F32_0_3 == F32Div(3, 10)

\* need_user_input asking from 30% failures on, on the integers
need_user_input_AtLeast(filenames) ==
    LET failure_count == Cardinality({f \in filenames : parse_track_number(f) = None})
    IN 10 * failure_count >= 3 * Cardinality(filenames)

\* lines 241-247
need_user_input(filenames) ==
    LET failure_count == Cardinality({f \in filenames : parse_track_number(f) = None})
        failure_rate == F32Div(failure_count, Cardinality(filenames))
    IN F32Greater(failure_rate, F32_0_3)

\* --- interactive_parser ---------------------------------------------------
\* interact_text accepting the empty line
DelimiterInputs_AllowEmpty == { <<>>, <<"-">>, <<"x">> }

\* the text Input::interact_text returns: dialoguer asks again on empty
\* input (no default, allow_empty not set), so it is never empty
DelimiterInputs == { <<"-">>, <<"x">> }

\* prompt_for_parsing_strategy lines 42-92: the preference of menu entry 0..4
MenuPreference(selection, delimiter) ==
    CASE selection = 0 -> Pref("asian_fullwidth", <<>>, TRUE, <<"fullwidth">>)
      [] selection = 1 -> Pref("asian_brackets", <<>>, TRUE, <<"asian_brackets">>)
      [] selection = 2 -> Pref("asian_kanji_episode", <<>>, TRUE, <<"kanji_episode">>)
      [] selection = 3 -> Pref("custom_delimiter", <<delimiter>>, FALSE, <<>>)
      [] selection = 4 -> Pref("first_number", <<>>, FALSE, <<>>)

\* test_strategy: the preview shown at the confirmation
test_strategy(filenames, pref) ==
    [f \in filenames |-> parse_track_number_with_preference(f, <<pref>>)]

NoLocal == [audio_files |-> {}, filenames |-> {}, current_pref |-> <<>>, candidate |-> <<>>]

\* what a run has done to a work so far: process_work_folder was entered
\* (started) or returned at once for a tagged work (skipped), normalization
\* returned Err, the menu was shown (asked), how the selector ended, the
\* candidate preference and its preview, the tags written, the marker, and
\* the result process_work_folder returned
NoTrace ==
    [started |-> FALSE, skipped |-> FALSE, norm_err |-> FALSE, asked |-> FALSE,
     selector |-> "none", candidate |-> <<>>, preview |-> <<>>, save_failed |-> FALSE,
     tagged |-> {}, marked |-> FALSE, result |-> "pending"]

work == works_with_paths[idx]

\* normalize_folder_structure on a work folder: every outcome it can have
normalize_folder_structure(fo) ==
    LET pattern == detect_folder_pattern(fo.files, fo.listing)
    IN IF pattern = "Flat" THEN {[folder |-> fo, ok |-> TRUE, moved |-> 0]}
       ELSE { LET r == Relocate(fo.files, fo.dirs, pattern, audio_files, failAt, 0)
                  ds == IF r.err = "none"
                        THEN cleanup_empty_subdirs(r.files, fo.dirs) ELSE fo.dirs
              IN [folder |-> [fo EXCEPT !.files = r.files, !.dirs = ds,
                                        !.listing = SelectSeq(fo.listing, LAMBDA d : d \in ds)],
                  ok |-> r.err = "none", moved |-> r.moved] :
              audio_files \in collect_audio_files_recursive(fo.files, fo.dirs),
              failAt \in 0..Cardinality({f \in fo.files : f.dir # <<>> /\ is_audio(f.name)}) }

\* Finish with an Err of process_work_folder ending the loop
Finish_ErrAborts(tr) ==
    /\ trace' = [trace EXCEPT ![work] = tr]
    /\ idx' = IF tr.result = "err" THEN Len(works_with_paths) + 1 ELSE idx + 1
    /\ pc' = "loop"
    /\ local' = NoLocal

\* process_work_folder returns with the trace tr for the work, and the loop
\* of step3_tag_files (main.rs 496-521) goes on to the next work
Finish(tr) ==
    /\ trace' = [trace EXCEPT ![work] = tr]
    /\ idx' = idx + 1
    /\ pc' = "loop"
    /\ local' = NoLocal

\* ------------------------------------------------------------------------
\* Actions of the batch
\* ------------------------------------------------------------------------

\* main.rs 496-507 and process_work_folder lines 27-59: the retag check, the
\* early return for a tagged work, normalization (an Err is only logged),
\* get_fld_id and fetch_metadata_from_db.  The cover download of lines
\* 61-74 changes nothing the tagging reads and its errors are only logged.
ProcessWorkFolder ==
    /\ pc = "loop"
    /\ idx <= Len(works_with_paths)
    /\ \E modified, db_ok \in BOOLEAN :
         LET fo == folders[work]
             needs_retag == ~recorded[work] \/ modified
         IN IF fo.marker /\ ~needs_retag
            THEN /\ Finish([trace[work] EXCEPT !.skipped = TRUE, !.result = "ok"])
                 /\ UNCHANGED folders
            ELSE \E n \in normalize_folder_structure(fo) :
                   /\ folders' = [folders EXCEPT ![work] = n.folder]
                   /\ LET tr == [trace[work] EXCEPT !.started = TRUE, !.norm_err = ~n.ok]
                      IN IF db_ok
                         THEN /\ trace' = [trace EXCEPT ![work] = tr]
                              /\ pc' = "tag_all_files"
                              /\ UNCHANGED <<idx, local>>
                         ELSE Finish([tr EXCEPT !.result = "err"])
    /\ UNCHANGED <<run, store, recorded>>
    /\ UNCHANGED parserVars
    /\ UNCHANGED normalizerVars

\* tag_all_files lines 183-248: collect the MP3 files of the root, read the
\* stored preference, decide whether the operator is asked
TagAllFiles ==
    /\ pc = "tag_all_files"
    /\ \E read_ok, pref_ok \in BOOLEAN :
         LET audio_files == {f.name : f \in {g \in folders[work].files :
                                                g.dir = <<>> /\ is_mp3(g.name)}}
             current_pref == store[work]
             ask == current_pref = <<>> /\ need_user_input(audio_files)
         IN IF ~read_ok THEN Finish([trace[work] EXCEPT !.result = "err"])
            ELSE IF audio_files = {}
            THEN /\ pc' = "marker"
                 /\ UNCHANGED <<idx, local, trace>>
            ELSE IF ~pref_ok THEN Finish([trace[work] EXCEPT !.result = "err"])
            ELSE /\ local' = [audio_files |-> audio_files, filenames |-> audio_files,
                              current_pref |-> current_pref, candidate |-> <<>>]
                 /\ trace' = [trace EXCEPT ![work].asked = ask]
                 /\ pc' = IF ask THEN "menu" ELSE "tagging"
                 /\ UNCHANGED idx
    /\ UNCHANGED <<run, folders, store, recorded>>
    /\ UNCHANGED parserVars
    /\ UNCHANGED normalizerVars

\* an Err of prompt_for_parsing_strategy or confirm_strategy, and the answer
\* no: lines 267-277 log it and tagging goes on with current_pref unchanged
SelectorEnds(how) ==
    /\ trace' = [trace EXCEPT ![work].selector = how]
    /\ pc' = "tagging"
    /\ UNCHANGED <<idx, local>>

\* prompt_for_parsing_strategy lines 35-69 and 84-99: the menu
PromptForParsingStrategy ==
    /\ pc = "menu"
    /\ \/ \E selection \in {0, 1, 2, 4} :
            /\ local' = [local EXCEPT !.candidate = <<MenuPreference(selection, <<>>)>>]
            /\ pc' = "confirm"
            /\ UNCHANGED <<idx, trace>>
       \/ /\ pc' = "delimiter"
          /\ UNCHANGED <<idx, local, trace>>
       \/ SelectorEnds("skip")
       \/ SelectorEnds("prompt_error")
    /\ UNCHANGED <<run, folders, store, recorded>>
    /\ UNCHANGED parserVars
    /\ UNCHANGED normalizerVars

\* prompt_for_parsing_strategy lines 70-83: the delimiter input
PromptDelimiter ==
    /\ pc = "delimiter"
    /\ \/ \E delimiter \in DelimiterInputs :
            /\ local' = [local EXCEPT !.candidate = <<MenuPreference(3, delimiter)>>]
            /\ pc' = "confirm"
            /\ UNCHANGED <<idx, trace>>
       \/ SelectorEnds("prompt_error")
    /\ UNCHANGED <<run, folders, store, recorded>>
    /\ UNCHANGED parserVars
    /\ UNCHANGED normalizerVars

\* ConfirmStrategy with the answer no leading back to the menu
ConfirmStrategy_RejectedAsksAgain ==
    /\ pc = "confirm"
    /\ \E answer \in {"confirmed", "rejected", "confirm_error"} :
         /\ trace' = [trace EXCEPT ![work] =
                         [@ EXCEPT !.candidate = local.candidate,
                                   !.preview = test_strategy(local.filenames, local.candidate[1]),
                                   !.selector = answer]]
         /\ pc' = IF answer = "confirmed" THEN "save"
                  ELSE IF answer = "rejected" THEN "menu" ELSE "tagging"
    /\ UNCHANGED <<run, idx, folders, store, recorded, local>>
    /\ UNCHANGED parserVars
    /\ UNCHANGED normalizerVars

\* ConfirmStrategy with the answer no keeping the candidate as current_pref
ConfirmStrategy_RejectedKept ==
    /\ pc = "confirm"
    /\ \E answer \in {"confirmed", "rejected", "confirm_error"} :
         /\ trace' = [trace EXCEPT ![work] =
                         [@ EXCEPT !.candidate = local.candidate,
                                   !.preview = test_strategy(local.filenames, local.candidate[1]),
                                   !.selector = answer]]
         /\ pc' = IF answer = "confirmed" THEN "save" ELSE "tagging"
         /\ local' = IF answer = "rejected"
                     THEN [local EXCEPT !.current_pref = local.candidate] ELSE local
    /\ UNCHANGED <<run, idx, folders, store, recorded>>
    /\ UNCHANGED parserVars
    /\ UNCHANGED normalizerVars

\* tag_all_files lines 257-273: test_strategy, confirm_strategy
ConfirmStrategy ==
    /\ pc = "confirm"
    /\ \E answer \in {"confirmed", "rejected", "confirm_error"} :
         /\ trace' = [trace EXCEPT ![work] =
                         [@ EXCEPT !.candidate = local.candidate,
                                   !.preview = test_strategy(local.filenames, local.candidate[1]),
                                   !.selector = answer]]
         /\ pc' = IF answer = "confirmed" THEN "save" ELSE "tagging"
    /\ UNCHANGED <<run, idx, folders, store, recorded, local>>
    /\ UNCHANGED parserVars
    /\ UNCHANGED normalizerVars

\* SaveTrackParsingPreference without the assignment to current_pref
SaveTrackParsingPreference_PrefNotAdopted ==
    /\ pc = "save"
    /\ \/ /\ store' = [store EXCEPT ![work] = local.candidate]
          /\ pc' = "tagging"
          /\ UNCHANGED <<idx, trace, local>>
       \/ /\ Finish([trace[work] EXCEPT !.save_failed = TRUE, !.result = "err"])
          /\ UNCHANGED store
    /\ UNCHANGED <<run, folders, recorded>>
    /\ UNCHANGED parserVars
    /\ UNCHANGED normalizerVars

\* SaveTrackParsingPreference with the Err of the save only logged
SaveTrackParsingPreference_ErrLogged ==
    /\ pc = "save"
    /\ \/ /\ store' = [store EXCEPT ![work] = local.candidate]
          /\ local' = [local EXCEPT !.current_pref = local.candidate]
          /\ pc' = "tagging"
          /\ UNCHANGED <<idx, trace>>
       \/ /\ trace' = [trace EXCEPT ![work].save_failed = TRUE]
          /\ local' = [local EXCEPT !.current_pref = local.candidate]
          /\ pc' = "tagging"
          /\ UNCHANGED <<idx, store>>
    /\ UNCHANGED <<run, folders, recorded>>
    /\ UNCHANGED parserVars
    /\ UNCHANGED normalizerVars

\* tag_all_files lines 263-264: save_track_parsing_preference (INSERT OR
\* REPLACE, queries.rs 404-428); its Err ends tag_all_files
SaveTrackParsingPreference ==
    /\ pc = "save"
    /\ \/ /\ store' = [store EXCEPT ![work] = local.candidate]
          /\ local' = [local EXCEPT !.current_pref = local.candidate]
          /\ pc' = "tagging"
          /\ UNCHANGED <<idx, trace>>
       \/ /\ Finish([trace[work] EXCEPT !.save_failed = TRUE, !.result = "err"])
          /\ UNCHANGED store
    /\ UNCHANGED <<run, folders, recorded>>
    /\ UNCHANGED parserVars
    /\ UNCHANGED normalizerVars

\* tag_all_files lines 282-298, one file of the loop: the track number, the
\* tag write (tag_audio_file) and record_file_processing; an Err of either
\* ends tag_all_files.  The track number handed to tag_audio_file is kept
\* in the trace of the run; write_id3_tags sets the track frame to it when it
\* is Some and sets none when it is None (id3_handler.rs 26-28).
TagAudioFile ==
    /\ pc = "tagging"
    /\ \E f \in local.audio_files, tag_ok, record_ok \in BOOLEAN :
         LET track_number == parse_track_number_with_preference(f, local.current_pref)
             tr == [trace[work] EXCEPT
                      !.tagged = IF tag_ok THEN @ \cup {<<f, track_number>>} ELSE @,
                      !.result = IF tag_ok /\ record_ok THEN @ ELSE "err"]
         IN IF tag_ok /\ record_ok
            THEN /\ recorded' = [recorded EXCEPT ![work] = TRUE]
                 /\ trace' = [trace EXCEPT ![work] = tr]
                 /\ local' = [local EXCEPT !.audio_files = @ \ {f}]
                 /\ pc' = IF local.audio_files = {f} THEN "marker" ELSE "tagging"
                 /\ UNCHANGED idx
            ELSE /\ Finish(tr)
                 /\ UNCHANGED recorded
    /\ UNCHANGED <<run, folders, store>>
    /\ UNCHANGED parserVars
    /\ UNCHANGED normalizerVars

\* process_work_folder lines 79-83: create_tagged_marker
CreateTaggedMarker ==
    /\ pc = "marker"
    /\ \/ /\ folders' = [folders EXCEPT ![work].marker = TRUE]
          /\ Finish([trace[work] EXCEPT !.marked = TRUE, !.result = "ok"])
       \/ /\ Finish([trace[work] EXCEPT !.result = "err"])
          /\ UNCHANGED folders
    /\ UNCHANGED <<run, store, recorded>>
    /\ UNCHANGED parserVars
    /\ UNCHANGED normalizerVars

\* the program is started again on the same folders and database
NextRun ==
    /\ pc = "loop"
    /\ idx > Len(works_with_paths)
    /\ run < MaxRuns
    /\ run' = run + 1
    /\ idx' = 1
    /\ trace' = [w \in Works |-> NoTrace]
    /\ UNCHANGED <<pc, folders, store, recorded, local>>
    /\ UNCHANGED parserVars
    /\ UNCHANGED normalizerVars

InitBatch ==
    /\ run = 1
    /\ idx = 1
    /\ pc = "loop"
    /\ folders \in WorkFolders
    /\ store \in [Works -> StoredPreferences]
    /\ recorded = [w \in Works |-> FALSE]
    /\ local = NoLocal
    /\ trace = [w \in Works |-> NoTrace]
    /\ filename = <<>>
    /\ preference = <<>>
    /\ called = "none"
    /\ track = None
    /\ NormalizerIdle

NextBatch ==
    \/ ProcessWorkFolder
    \/ TagAllFiles
    \/ PromptForParsingStrategy
    \/ PromptDelimiter
    \/ ConfirmStrategy
    \/ SaveTrackParsingPreference
    \/ TagAudioFile
    \/ CreateTaggedMarker
    \/ NextRun

SpecBatch == InitBatch /\ [][NextBatch]_vars

\* --- the decision to ask, on folders of up to MaxWorkFiles files ----------
MaxWorkFiles == 10

\* names the standard cascade parses ("1-a.mp3" gives 1) and names it does
\* not ("x1.mp3")
ParsedNames == { <<d, "-", "a", ".", "m", "p", "3">> : d \in {"1", "2", "3", "4", "5", "6", "7"} }
UnparsedNames == { <<"x", d, ".", "m", "p", "3">> : d \in {"1", "2", "3", "4"} }

SelectFolders ==
    { [w \in Works |-> IF w = works_with_paths[1]
                       THEN Folder({<<>>} \X S) ELSE Folder({<< <<>>, N_1a >>})] :
        S \in {T \in SUBSET (ParsedNames \cup UnparsedNames) :
                 Cardinality(T) \in 1..MaxWorkFiles} }

InitSelect ==
    /\ run = 1
    /\ idx = 1
    /\ pc = "loop"
    /\ folders \in SelectFolders
    /\ store \in [Works -> StoredPreferences]
    /\ recorded = [w \in Works |-> FALSE]
    /\ local = NoLocal
    /\ trace = [w \in Works |-> NoTrace]
    /\ filename = <<>>
    /\ preference = <<>>
    /\ called = "none"
    /\ track = None
    /\ NormalizerIdle

\* process_work_folder up to the end of the selector (tag_all_files lines
\* 185-279)
NextSelect ==
    \/ ProcessWorkFolder
    \/ TagAllFiles
    \/ PromptForParsingStrategy
    \/ PromptDelimiter
    \/ ConfirmStrategy

SpecSelect == InitSelect /\ [][NextSelect]_vars

\* ------------------------------------------------------------------------
\* Properties of the parser
\* ------------------------------------------------------------------------

\* the strategies of the cascade whose pattern matches, and those whose
\* matched integer also passes the bound check
Matched(caps) == {j \in 1..6 : caps[j] # <<>>}
InBounds(caps) == {j \in 1..6 : BoundCheck(caps[j]) # None}

\* C1: a filename (extension included) that starts with 1-3 digits and a
\* separator, the number in 1..999, parses to that leading number.
C1_LeadingNumberReturned ==
    ( /\ called = "parse_track_number"
      /\ BoundCheck(beginning_pattern(filename)) # None )
    => track = BoundCheck(beginning_pattern(filename))

\* C2: both entry points return None or Some(n) with 1 <= n <= 999, for
\* every filename and every preference.
C2_TrackInBounds ==
    \/ track = None
    \/ /\ Len(track) = 1
       /\ track[1] \in 1..999

\* a capture of value 0 or a four-digit run was met and the result is in bounds
C2_Witness ==
    /\ called = "parse_track_number_with_preference"
    /\ preference # <<>>
    /\ preference[1].strategy_name = "first_number"
    /\ digits_then_literal(name_without_ext(filename), <<>>) = <<"0">>
    /\ track # None

\* C3: with a preference, the named strategy's result is returned when it
\* yields a number; when it yields None the result is that of the plain
\* standard cascade.
C3_PreferenceFirstThenCascade ==
    ( /\ called = "parse_track_number_with_preference"
      /\ preference # <<>> )
    => IF try_strategy(filename, preference[1]) = None
       THEN track = parse_track_number(filename)
       ELSE track = try_strategy(filename, preference[1])

\* the preference's strategy fails and the cascade supplies the number
C3_Witness ==
    /\ called = "parse_track_number_with_preference"
    /\ preference # <<>>
    /\ preference[1].strategy_name = "asian_brackets"
    /\ try_strategy(filename, preference[1]) = None
    /\ track # None

\* C4 as stated: when the first strategy whose pattern matches fails the
\* bound check, the result is None.
C4_FirstMatchDecides ==
    LET caps == CascadeCaptures(filename)
    IN ( /\ called = "parse_track_number"
         /\ Matched(caps) # {}
         /\ SetMin(Matched(caps)) \notin InBounds(caps) )
       => track = None

\* C4 amended: the first strategy whose matched integer passes the bound
\* check decides the result; a match that fails the check is skipped, and
\* the result is None only when no strategy matches an in-range integer.
C4_FirstInBoundsMatchDecides ==
    LET caps == CascadeCaptures(filename)
    IN called = "parse_track_number"
       => track = IF InBounds(caps) = {} THEN None
                  ELSE BoundCheck(caps[SetMin(InBounds(caps))])

\* the first matching strategy fails the bound check and a later one answers
C4_Witness ==
    LET caps == CascadeCaptures(filename)
    IN /\ called = "parse_track_number"
       /\ Matched(caps) # {}
       /\ SetMin(Matched(caps)) \notin InBounds(caps)
       /\ track # None

\* C5: a filename whose part before the final '.' is a decimal numeral
\* parses to its value when it has 1-3 digits and the value is in 1..999,
\* and to None when the value is 0 or it has four or more digits.
C5_BareNumeral ==
    LET stem == name_without_ext(filename)
    IN ( /\ called = "parse_track_number"
         /\ \E i \in 1..Len(filename) : filename[i] = "."
         /\ ParseOk(stem) )
       => IF Len(stem) <= 3 /\ ParseU32(stem) \in 1..999
          THEN track = Some(ParseU32(stem))
          ELSE track = None

\* the readings of a name as <prefix><optional separator><d1><separator><d2>:
\* <<prefix index in DiscPrefixes, separator present (1) or not (0), d1, d2>>
DiscForm(name) ==
    LET lower == to_lowercase(name)
    IN { <<a, o, SubSeq(lower, Len(DiscPrefixes[a]) + o + 1, Len(DiscPrefixes[a]) + o + k1),
           SubSeq(lower, Len(lower) - k2 + 1, Len(lower))>> :
           <<a, o, k1, k2>> \in
             { t \in (1..3) \X (0..1) \X (1..3) \X (1..3) :
                 LET p == Len(DiscPrefixes[t[1]])
                 IN /\ Len(lower) = p + t[2] + t[3] + 1 + t[4]
                    /\ StartsWithAt(lower, 1, DiscPrefixes[t[1]])
                    /\ t[2] = 1 => IsSep(lower[p + 1])
                    /\ ParseOk(SubSeq(lower, p + t[2] + 1, p + t[2] + t[3]))
                    /\ IsSep(lower[p + t[2] + t[3] + 1])
                    /\ ParseOk(SubSeq(lower, Len(lower) - t[4] + 1, Len(lower))) } }

\* C6 as stated: such a name, d2 in 1..999, parses to d2 for every prefix.
C6_SecondNumber ==
    called = "parse_track_number"
    => \A r \in DiscForm(name_without_ext(filename)) :
          BoundCheck(r[4]) # None => track = BoundCheck(r[4])

\* C6 amended: such a name parses to d2, unless the prefix is 'track'
\* directly followed by d1 in 1..999: the short-prefix strategy, tried
\* before the disc strategy, then returns d1.
C6_SecondNumberUnlessTrackPrefix ==
    called = "parse_track_number"
    => \A r \in DiscForm(name_without_ext(filename)) :
          BoundCheck(r[4]) # None =>
              IF r[1] = 3 /\ r[2] = 0 /\ BoundCheck(r[3]) # None
              THEN track = BoundCheck(r[3])
              ELSE track = BoundCheck(r[4])

\* a disc name whose two numbers differ parses to the second
C6_Witness ==
    /\ called = "parse_track_number"
    /\ \E r \in DiscForm(name_without_ext(filename)) :
          /\ r[1] = 1
          /\ BoundCheck(r[3]) # None
          /\ BoundCheck(r[4]) # None
          /\ BoundCheck(r[3]) # BoundCheck(r[4])
          /\ track = BoundCheck(r[4])

\* ------------------------------------------------------------------------
\* Properties of the normalizer.  A file's id is the place <<dir, name>> it
\* had before the first call.
\* ------------------------------------------------------------------------
OriginalDir(f) == f.id[1]
OriginalName(f) == f.id[2]
LastCall == calls[Len(calls)]

\* C7: after a call that succeeds, the next call on the same directory
\* moves no file (returns 0) and the directory is classified Flat.
C7_SecondCallIdle ==
    \A k \in 2..Len(calls) :
        calls[k - 1].ok
        => /\ calls[k].ok
           /\ calls[k].moved = 0
           /\ calls[k].pattern = "Flat"

\* a first call relocated files and succeeded, and a second call has run
C7_Witness ==
    /\ Len(calls) = 2
    /\ calls[1].ok
    /\ calls[1].moved > 0
    /\ \E f \in files : ~is_audio(f.name) /\ f.dir # <<>>

PrefixedName(f) == ReplaceSlash(JoinPath(OriginalDir(f), "/")) \o <<"_">> \o OriginalName(f)

\* two disc subdirectories held audio files of the same name, and nothing
\* at the root had one of the prefixed names
SameNameOnSeveralDiscs ==
    /\ \E f, g \in files :
          /\ is_audio(f.name) /\ is_audio(g.name)
          /\ Len(OriginalDir(f)) = 1 /\ Len(OriginalDir(g)) = 1
          /\ OriginalDir(f) # OriginalDir(g)
          /\ DirCategory(OriginalDir(f)[1]) = "disc"
          /\ DirCategory(OriginalDir(g)[1]) = "disc"
          /\ OriginalName(f) = OriginalName(g)
    /\ ~\E h, f \in files :
          /\ OriginalDir(h) = <<>>
          /\ OriginalDir(f) # <<>> /\ is_audio(f.name)
          /\ OriginalName(h) = PrefixedName(f)

\* C9: in a work classified DiscSubfolders where several disc
\* subdirectories hold audio files of the same name and the root holds none
\* of the prefixed names, every relocated file is named
\* <subdir>_<original name>, without a numeric suffix.
C9_DiscPrefixKept ==
    ( /\ Len(calls) = 1
      /\ calls[1].ok
      /\ calls[1].pattern = "DiscSubfolders"
      /\ SameNameOnSeveralDiscs )
    => \A f \in files :
          (is_audio(f.name) /\ OriginalDir(f) # <<>>)
          => (f.dir = <<>> /\ f.name = PrefixedName(f))

\* disc1/01.mp3 and CD2/01.mp3 were relocated by a successful call
C9_Witness ==
    /\ Len(calls) = 1
    /\ calls[1].ok
    /\ calls[1].pattern = "DiscSubfolders"
    /\ calls[1].moved = 2
    /\ SameNameOnSeveralDiscs

\* all audio files were directly in one subdirectory named mp3, audio or
\* after a format, the root held no audio, that subdirectory held nothing else
AllAudioInOneNamedSubdir ==
    \E d \in {OriginalDir(f) : f \in files} :
        /\ Len(d) = 1
        /\ DirCategory(d[1]) \in {"mp3", "audio", "format"}
        /\ \A f \in files : is_audio(OriginalName(f)) => OriginalDir(f) = d
        /\ \A f \in files : OriginalDir(f) = d => is_audio(OriginalName(f))
        /\ \E f \in files : OriginalDir(f) = d

\* C10: when all audio files lie directly in one subdirectory named mp3,
\* audio or after a format, the root holds no audio and the subdirectory
\* holds nothing else, a successful call moves each file to the root under
\* its original name, returns their number and removes the subdirectory.
C10_SingleSubdirFlattened ==
    ( /\ Len(calls) = 1
      /\ calls[1].ok
      /\ AllAudioInOneNamedSubdir )
    => /\ \A f \in files : is_audio(f.name) => (f.dir = <<>> /\ f.name = OriginalName(f))
       /\ calls[1].moved = Cardinality({f \in files : is_audio(f.name)})
       /\ \A f \in files : is_audio(f.name) => OriginalDir(f) \notin dirs

\* the categories with at least one immediate subdirectory that directly
\* holds an audio file
ConfirmedCategories(fs, ds) ==
    {DirCategory(d[1]) : d \in {e \in ds : Len(e) = 1 /\ has_audio_files_in_dir(fs, e)}}
        \ {"other"}

CategoryPattern(c) ==
    CASE c = "mp3" -> "Mp3Subfolder"
      [] c = "audio" -> "AudioSubfolder"
      [] c = "format" -> "FormatSubfolder"
      [] c = "disc" -> "DiscSubfolders"
      [] c = "lang" -> "LanguageSubfolders"

\* C15: a call classifies the directory Mixed exactly when two or more
\* categories are confirmed, as the one category when exactly one is (root
\* audio or not), and Flat when the root holds audio and none is; in that
\* last case it returns 0 and renames and removes nothing.
C15_ClassifiedByConfirmedCategories ==
    [][ NormalizeFolderStructure =>
          LET confirmed == ConfirmedCategories(files, dirs)
              call == calls'[Len(calls')]
          IN /\ (call.pattern = "Mixed") <=> (Cardinality(confirmed) >= 2)
             /\ Cardinality(confirmed) = 1
                  => \A c \in confirmed : call.pattern = CategoryPattern(c)
             /\ (confirmed = {} /\ \E f \in files : f.dir = <<>> /\ is_audio(f.name))
                  => /\ call.pattern = "Flat"
                     /\ call.ok /\ call.moved = 0
                     /\ files' = files /\ dirs' = dirs ]_vars

\* ------------------------------------------------------------------------
\* Properties of the preference strategies
\* ------------------------------------------------------------------------

\* the bracketed numbers of a filename as typed: <<position, bracket pair,
\* number of digits>> of an opening bracket, 1-3 digits (ASCII or
\* full-width) and the closing bracket of the same pair
BracketedNumbers(s) ==
    {t \in (1..Len(s)) \X (1..Len(BracketPairs)) \X (1..3) :
        /\ s[t[1]] = BracketPairs[t[2]][1]
        /\ DigitRun(s, t[1] + 1, t[3])
        /\ t[1] + t[3] + 1 <= Len(s)
        /\ s[t[1] + t[3] + 1] = BracketPairs[t[2]][2]}

BracketedValue(s, t) ==
    ParseU32(normalize_asian_text(SubSeq(s, t[1] + 1, t[1] + t[3])))

\* C16: with the strategy asian_brackets, a filename that contains exactly
\* one bracketed number n in 1..999, in any of the six bracket pairs, parses
\* to n.
C16_BracketedNumberParsed ==
    ( /\ called = "parse_track_number_with_preference"
      /\ preference # <<>>
      /\ preference[1].strategy_name = "asian_brackets"
      /\ Cardinality(BracketedNumbers(filename)) = 1 )
    => \A t \in BracketedNumbers(filename) :
          BracketedValue(filename, t) \in 1..999
          => track = Some(BracketedValue(filename, t))

KnownStrategies ==
    {"asian_fullwidth", "asian_brackets", "asian_kanji_episode", "first_number",
     "custom_delimiter"}

\* C20: with a preference whose strategy name is none of the five known
\* ones, the result is that of the plain standard cascade, whatever the
\* other fields of the preference hold.
C20_UnknownStrategyIsCascade ==
    ( /\ called = "parse_track_number_with_preference"
      /\ preference # <<>>
      /\ preference[1].strategy_name \notin KnownStrategies )
    => track = parse_track_number(filename)

\* an unknown strategy with a delimiter and Asian fields set, on a filename
\* the cascade fails on although its first number is in range
C20_Witness ==
    /\ called = "parse_track_number_with_preference"
    /\ preference # <<>>
    /\ preference[1].strategy_name \notin KnownStrategies
    /\ preference[1].custom_delimiter # <<>>
    /\ preference[1].use_asian_conversion
    /\ BoundCheck(digits_then_literal(name_without_ext(filename), <<>>)) # None
    /\ track = None

\* ------------------------------------------------------------------------
\* Properties of the batch
\* ------------------------------------------------------------------------

\* C11: after the operator chose "Skip this folder" for a work, the run tags
\* no file of that work and does not write its .tagged marker.
C11_SkipStopsTagging ==
    \A w \in Works :
        trace[w].selector = "skip"
        => (trace[w].tagged = {} /\ ~trace[w].marked)

\* the MP3 files in the root of a work folder
RootMp3(w) == {f.name : f \in {g \in folders[w].files : g.dir = <<>> /\ is_mp3(g.name)}}

\* C12: once the operator has confirmed a candidate, its save completes
\* before the first file is tagged: from the end of the save on the store
\* holds the candidate, and if the save fails no file of the work is tagged
\* in this run.
C12_SavedBeforeTagging ==
    \A w \in Works :
        /\ (trace[w].selector = "confirmed" /\ trace[w].tagged # {})
              => store[w] = trace[w].candidate
        /\ (trace[w].selector = "confirmed" /\ ~trace[w].save_failed
              /\ ~(pc = "save" /\ idx <= Len(works_with_paths) /\ work = w))
              => store[w] = trace[w].candidate
        /\ trace[w].save_failed => trace[w].tagged = {}

\* a confirmed candidate was saved and a file was tagged with it
C12_Witness ==
    \E w \in Works :
        /\ trace[w].selector = "confirmed"
        /\ trace[w].candidate # <<>>
        /\ trace[w].candidate[1].strategy_name = "first_number"
        /\ store[w] = trace[w].candidate
        /\ <<N_x1, Some(1)>> \in trace[w].tagged

\* C13: after the answer no at the confirmation the store holds no
\* preference for the work, every tag written carries the track number of
\* the plain standard cascade, and a call that succeeds has tagged every
\* MP3 file of the root.
C13_RejectedMeansCascade ==
    \A w \in Works :
        trace[w].selector = "rejected"
        => /\ store[w] = <<>>
           /\ \A t \in trace[w].tagged : t[2] = parse_track_number(t[1])
           /\ trace[w].result = "ok" => {t[1] : t \in trace[w].tagged} = RootMp3(w)

\* first_number was rejected although its preview gave x1.mp3 the number 1,
\* and x1.mp3 was tagged without a track number
C13_Witness ==
    \E w \in Works :
        /\ trace[w].selector = "rejected"
        /\ trace[w].candidate = << Pref("first_number", <<>>, FALSE, <<>>) >>
        /\ trace[w].preview[N_x1] = Some(1)
        /\ <<N_x1, None>> \in trace[w].tagged
        /\ trace[w].result = "ok"

\* the filenames of a set for which the standard cascade returns None
CascadeFailures(names) == {f \in names : parse_track_number(f) = None}

\* C14: when tag_all_files decides, the selector is started exactly when
\* the work has no stored preference and the cascade fails on strictly more
\* than 30% of its MP3 files (10 * failures > 3 * total); the selector never
\* runs without that decision.
C14_AskedAboveThirtyPercent ==
    [][ /\ (TagAllFiles /\ pc' \in {"menu", "tagging"})
            => ((pc' = "menu") <=>
                   (/\ store[work] = <<>>
                    /\ 10 * Cardinality(CascadeFailures(RootMp3(work)))
                          > 3 * Cardinality(RootMp3(work))))
        /\ PromptForParsingStrategy => trace[work].asked ]_vars

\* ten files, three of them not parsed by the cascade, no stored
\* preference: the operator is not asked
C14_Witness ==
    /\ pc = "tagging"
    /\ idx = 1
    /\ store[work] = <<>>
    /\ Cardinality(local.filenames) = 10
    /\ Cardinality(CascadeFailures(local.filenames)) = 3
    /\ ~trace[work].asked

\* the preferences tag_all_files holds, has shown, or has in the store
HeldPreferences ==
    {local.candidate, local.current_pref}
        \cup {store[w] : w \in Works} \cup {trace[w].candidate : w \in Works}

C18_FailureDoesNotAbortBatch ==
    \A i \in 1..Len(works_with_paths) :
        /\ i < idx => trace[works_with_paths[i]].result # "pending"
        /\ i > idx => /\ trace[works_with_paths[i]].result = "pending"
                      /\ ~trace[works_with_paths[i]].started
        /\ (i = idx /\ pc = "loop") => trace[works_with_paths[i]] = NoTrace

\* the first work failed and the second one was tagged and marked after it
C18_Witness ==
    /\ idx > Len(works_with_paths)
    /\ trace[works_with_paths[1]].result = "err"
    /\ trace[works_with_paths[2]].result = "ok"
    /\ trace[works_with_paths[2]].tagged # {}
    /\ trace[works_with_paths[2]].marked

\* C19: a run in which normalize_folder_structure failed for a work does
\* not mark the work as tagged.
C19_NormalizationFailureNotMarked ==
    \A w \in Works : trace[w].norm_err => (~trace[w].marked /\ ~folders[w].marker)

\* the work the loop is at, when it is at one
AtWork == idx \in 1..Len(works_with_paths)

\* C21: within one run the selector of a work is single-pass: the menu is
\* entered only from the decision of tag_all_files, which has looked the
\* preference up and found none, and only while the selector has no outcome
\* yet; the confirmation is entered only from the menu (or the delimiter
\* input) with a chosen candidate; tag_all_files is entered once per work;
\* and once the selector has an outcome no step leads back to the decision,
\* the menu or the confirmation.
C21_SelectorSinglePass ==
    [][ /\ pc' = "menu"
            => /\ pc = "tag_all_files"
               /\ store[work] = <<>>
               /\ trace[work].selector = "none"
        /\ pc' = "delimiter" => pc \in {"menu", "delimiter"}
        /\ pc' = "confirm"
            => /\ pc \in {"menu", "delimiter", "confirm"}
               /\ local'.candidate # <<>>
        /\ pc' = "tag_all_files"
            => \/ pc = "tag_all_files"
               \/ pc = "loop" /\ ~trace[work].started
        /\ (AtWork /\ trace[work].selector # "none" /\ idx' = idx)
            => pc' \notin {"tag_all_files", "menu", "delimiter", "confirm"} ]_vars

\* in a second run the operator was asked again, typed a delimiter and
\* answered no; the files are about to be tagged
C21_Witness ==
    /\ run = 2
    /\ AtWork
    /\ pc = "tagging"
    /\ trace[work].asked
    /\ trace[work].selector = "rejected"
    /\ trace[work].candidate # <<>>
    /\ trace[work].candidate[1].strategy_name = "custom_delimiter"

\* ------------------------------------------------------------------------
\* Further properties of the normalizer
\* ------------------------------------------------------------------------

\* the file came from a disc-style or language-style subdirectory: the
\* immediate subdirectory it was below is named disc*, cd* or jp, en, cn, kr
FromDiscOrLanguageSubdir(f) ==
    /\ OriginalDir(f) # <<>>
    /\ DirCategory(OriginalDir(f)[1]) \in {"disc", "lang"}

\* name, or name with a collision suffix
NameOrSuffixed(name) == {name} \cup {Suffixed(name, i) : i \in 1..(ConflictLimit - 1)}

\* C22: a file relocated from a subdirectory that is neither disc-style nor
\* language-style has its original name at the root (apart from a collision
\* suffix), whatever the pattern; a relocated file that carries the
\* subdirectory prefix came from a disc- or language-style subdirectory.
C22_PrefixOnlyFromDiscOrLanguage ==
    \A f \in files :
        (is_audio(f.name) /\ OriginalDir(f) # <<>> /\ f.dir = <<>>)
        => /\ ~FromDiscOrLanguageSubdir(f) => f.name \in NameOrSuffixed(OriginalName(f))
           /\ f.name \in NameOrSuffixed(PrefixedName(f)) => FromDiscOrLanguageSubdir(f)

\* the files a step takes from a subdirectory to the root
MovedBy(before, after) ==
    {f \in {h \in before : h.dir # <<>>} : \E g \in after : g.id = f.id /\ g.dir = <<>>}

\* what a file of before has become in after
After(f, after) == CHOOSE g \in after : g.id = f.id

\* the names taken at the root, by files and by directories
RootNames(fs, ds) ==
    {f.name : f \in {g \in fs : g.dir = <<>>}} \cup {d[1] : d \in {e \in ds : Len(e) = 1}}

\* name and its 999 candidates are all among the names taken
Exhausted(taken, name) ==
    /\ Cardinality(taken) >= ConflictLimit
    /\ name \in taken
    /\ \A N \in 1..(ConflictLimit - 1) : Suffixed(name, N) \in taken

\* C23: every file a call moves goes to a path that did not exist: to its
\* destination name when nothing else holds it, otherwise to <stem>_N.<ext>
\* with the destination and every smaller candidate held by something
\* else; a call cannot succeed while a file to move has its destination and
\* all 999 candidates taken, and the call that runs into this fails with
\* PathCreationFailed, not with the I/O error, leaving that file in its
\* subdirectory and the files moved before it at the root.
C23_CollisionResolution ==
    [][ NormalizeFolderStructure =>
          LET call == calls'[Len(calls')]
              moved == MovedBy(files, files')
              before == RootNames(files, dirs)
              after == RootNames(files', dirs')
          IN /\ \A f \in moved :
                  LET n == After(f, files').name
                      t == new_filename(call.pattern, f.dir, f.name)
                  IN /\ n \notin before
                     /\ n # t => \E N \in 1..(ConflictLimit - 1) :
                                   /\ n = Suffixed(t, N)
                                   /\ t \in after
                                   /\ \A M \in 1..(N - 1) : Suffixed(t, M) \in after
             /\ Cardinality({g \in files' : g.dir = <<>>})
                  = Cardinality({g.name : g \in {h \in files' : h.dir = <<>>}})
             /\ Cardinality(moved) = call.moved
             /\ (call.pattern # "Flat"
                   /\ \E f \in {h \in files : h.dir # <<>> /\ is_audio(h.name)} :
                        Exhausted(before, new_filename(call.pattern, f.dir, f.name)))
                  => ~call.ok
             /\ call.err = "PathCreationFailed"
                  => /\ ~call.ok
                     /\ dirs' = dirs
                     /\ \E f \in {h \in files' : h.dir # <<>> /\ is_audio(h.name)} :
                          /\ f \in files
                          /\ Exhausted(after, new_filename(call.pattern, f.dir, f.name)) ]_vars

\* mp3/01.mp3 took the last free candidate 01_999.mp3, the other 01.mp3
\* found none, and the call failed with one file moved
C23_Witness ==
    /\ Len(calls) = 1
    /\ calls[1].err = "PathCreationFailed"
    /\ calls[1].moved = 1
    /\ \E f \in files : /\ OriginalDir(f) # <<>> /\ f.dir = <<>>
                        /\ f.name = Suffixed(F_01_mp3, ConflictLimit - 1)
    /\ \E f \in files : f.dir # <<>> /\ f.name = F_01_mp3

\* C24: in the classification a call makes, each category flag is set
\* exactly when some immediate subdirectory of the category directly holds
\* an audio file, and the pattern is the same for every order in which
\* read_dir could have listed the subdirectories.
C24_ConfirmedInAnyOrder ==
    [][ NormalizeFolderStructure =>
          LET flags == DetectFlags(files, listing, NoFlags)
              call == calls'[Len(calls')]
          IN /\ \A c \in DOMAIN NoFlags :
                  flags[c] <=> c \in ConfirmedCategories(files, dirs)
             /\ \A l \in Listings({listing[i] : i \in 1..Len(listing)}) :
                  detect_folder_pattern(files, l) = call.pattern ]_vars

\* C25: when a call has failed after relocating some files, a later call
\* that meets no error leaves the files at the root as they are and ends
\* with every audio file at the root.
C25_RetryCompletes ==
    [][ ( /\ NormalizeFolderStructure
          /\ Len(calls) > 0
          /\ ~LastCall.ok
          /\ LastCall.moved > 0
          /\ calls'[Len(calls')].ok )
        => /\ \A f \in files : f.dir = <<>> => f \in files'
           /\ \A g \in files' : is_audio(g.name) => g.dir = <<>> ]_vars

\* C26: a call, whether it ends in Ok or in Err, keeps every file of the work,
\* each at a path of its own, and leaves the files at the root under their
\* names.
C26_NoFileLost ==
    [][ NormalizeFolderStructure
        => /\ {g.id : g \in files'} = {f.id : f \in files}
           /\ Cardinality(files') = Cardinality(files)
           /\ \A g, h \in files' : (g.dir = h.dir /\ g.name = h.name) => g = h
           /\ \A f \in files : f.dir = <<>> => f \in files' ]_vars

C26_Witness ==
    /\ Len(calls) = 1
    /\ LastCall.moved = 1
    /\ \E f, g \in files :
          /\ f.dir = <<>> /\ OriginalDir(f) = <<>>
          /\ g.dir = <<>> /\ OriginalDir(g) # <<>>
          /\ OriginalName(g) = f.name
          /\ g.name = Suffixed(f.name, 1)

\* the audio files below the root
AudioInSubdirs(fs) == {f \in fs : f.dir # <<>> /\ is_audio(f.name)}

C28_TaggedAsPreviewed ==
    \A w \in Works :
        trace[w].selector = "confirmed"
        => \A t \in trace[w].tagged :
              /\ t[1] \in DOMAIN trace[w].preview
              /\ t[2] = trace[w].preview[t[1]]

\* first_number was confirmed for a work of two files and both were tagged
\* with the numbers of the preview, one of which the cascade does not find
C28_Witness ==
    \E w \in Works :
        /\ trace[w].selector = "confirmed"
        /\ trace[w].result = "ok"
        /\ trace[w].preview = test_strategy({N_1a, N_x1}, Pref("first_number", <<>>, FALSE, <<>>))
        /\ trace[w].tagged = {<<N_1a, trace[w].preview[N_1a]>>, <<N_x1, Some(1)>>}
        /\ parse_track_number(N_x1) = None

\* the marker is written only by a run that has tagged every MP3 file of
\* the root
MarkerOnlyAfterOk ==
    \A w \in Works :
        (folders'[w].marker /\ ~folders[w].marker)
        => /\ trace'[w].result = "ok"
           /\ {t[1] : t \in trace'[w].tagged} = RootMp3(w)

\* once process_work_folder has returned Err for a work the run tags no
\* further file of it
FailureStopsTagging ==
    \A w \in Works :
        (trace[w].result = "err" /\ trace'[w].result = "err")
        => trace'[w].tagged = trace[w].tagged

\* the next run processes a work for which tagging or recording a file
\* failed: it does not take the early return of line 35.  A work without
\* the marker never takes it.  A work with the marker takes it unless
\* should_retag_work (custom_tags.rs 262-296) finds a mapping modified after
\* MAX(tag_date), and a file recorded by this run before the failure has
\* set that date to now.
FailedWorkUnmarked ==
    (TagAudioFile /\ trace'[work].result = "err" /\ trace[work].tagged # {})
    => ~folders'[work].marker

\* a work skipped as already tagged is left as it was
SkippedUntouched ==
    \A w \in Works :
        trace'[w].skipped
        => /\ folders'[w] = folders[w]
           /\ store'[w] = store[w]
           /\ recorded'[w] = recorded[w]
           /\ ~trace'[w].started
           /\ ~trace'[w].asked
           /\ trace'[w].tagged = {}

\* C29: the marker of a work is written only after tag_all_files returned
\* Ok; when tagging or recording a file fails the run tags no further file
\* of the work and the work is left without the marker, to be processed by
\* the next run; a work carrying the marker with no retag request is left
\* untouched.
C29_MarkerOnlyAfterSuccess ==
    [][ /\ MarkerOnlyAfterOk
        /\ FailureStopsTagging
        /\ FailedWorkUnmarked
        /\ SkippedUntouched ]_vars

\* the digit runs of s that no digit precedes or follows
MaximalDigitRuns(s) ==
    {SubSeq(s, i, j) : <<i, j>> \in
        {x \in (1..Len(s)) \X (1..Len(s)) :
            /\ x[1] <= x[2]
            /\ \A k \in x[1]..x[2] : IsDigit(s[k])
            /\ (x[1] = 1 \/ ~IsDigit(s[x[1] - 1]))
            /\ (x[2] = Len(s) \/ ~IsDigit(s[x[2] + 1]))}}

\* the numbers a whole digit run of the filename stands for, as written or
\* after normalize_asian_text
WholeRunValues(name) ==
    {ParseU32(r) : r \in {q \in MaximalDigitRuns(name)
                               \cup MaximalDigitRuns(normalize_asian_text(name)) :
                            ParseOk(q)}}

\* C30: a track number returned by either entry point is the value of a
\* whole digit run of the filename, never that of a part of a longer run.
C30_NoPartialDigitRun ==
    (called # "none" /\ track # None) => track[1] \in WholeRunValues(filename)

====
